---- MODULE Spec2Model ----
(***************************************************************************)
(* Model of handlers/product.go: the GetProducts HTTP handler, its         *)
(* SanitizeString and getStringField helpers.                              *)
(*                                                                         *)
(* Strings are sequences of one-character strings.  A Go int is a 64-bit   *)
(* two's complement word, kept as IntBytes bytes, least significant first, *)
(* so that strconv.Atoi's range check and the wrap-around of               *)
(* (page-1)*limit are computed as the machine computes them.               *)
(***************************************************************************)
EXTENDS Integers, Sequences, FiniteSets, TLC

VARIABLES
  pc,          \* position inside GetProducts
  param,       \* raw query parameter "param"   (<<>> = absent or empty)
  status,      \* raw query parameter "status"  (<<>> = absent or empty)
  pageArg,     \* raw query parameter "page"    (<<>> = absent or empty)
  limitArg,    \* raw query parameter "limit"   (<<>> = absent or empty)
  storeDocs,   \* documents the store holds for this query, after sort and skip
  page,        \* local page
  limit,       \* local limit
  filter,      \* local filter (bson.M)
  findOpts,    \* options.Find(): skip and limit handed to the store
  findCalls,   \* number of ProductCollection.Find calls issued
  ctxState,    \* the timeout context: "none", "active", "cancelled"
  cursorState, \* the cursor: "none", "open", "closed"
  results,     \* local results ([]bson.M)
  products,    \* local products ([]Product)
  response,    \* what was sent to the caller
  panicked     \* a run-time panic unwound the handler

vars == <<pc, param, status, pageArg, limitArg, storeDocs, page, limit, filter,
          findOpts, findCalls, ctxState, cursorState, results, products,
          response, panicked>>

----------------------------------------------------------------------------
(* Bounds of the model *)

\* longest param / status string
MaxLen == 2
\* longest page / limit string drawn from NumAlphabet (longer ones are listed)
MaxNumLen == 2
\* most group documents in a result set
MaxDocs == 2
\* longest productList
MaxItems == 2
\* longest brokers array
MaxBrokers == 2

----------------------------------------------------------------------------
(* Strings *)

RECURSIVE StringsUpTo(_, _)
StringsUpTo(alphabet, n) ==
  IF n = 0 THEN {<<>>}
  ELSE LET shorter == StringsUpTo(alphabet, n - 1)
       IN shorter \cup {Append(s, ch) : s \in shorter, ch \in alphabet}

\* MetaClass with the backslash left out of the class
MetaClassNoBackslash ==
  {".", "*", "+", "?", "^", "$", "{", "}", "(", ")", "|", "[", "]"}

\* the character class [.*+?^${}()|[\]\\] of the regular expression
MetaClass ==
  {".", "*", "+", "?", "^", "$", "{", "}", "(", ")", "|", "[", "]", "\\"}

\* the replacement template `\$0`: a literal backslash, then the whole match
ExpandTemplate(match) == <<"\\">> \o match

RECURSIVE ReplaceAllString(_)
ReplaceAllString(src) ==
  IF src = <<>> THEN <<>>
  ELSE IF Head(src) \in MetaClass
       THEN ExpandTemplate(<<Head(src)>>) \o ReplaceAllString(Tail(src))
       ELSE <<Head(src)>> \o ReplaceAllString(Tail(src))

SanitizeString(input) == ReplaceAllString(input)

\* strings.ToUpper on the characters the model draws
UpperOf(ch) == IF ch = "a" THEN "A" ELSE IF ch = "b" THEN "B" ELSE ch

RECURSIVE ToUpper(_)
ToUpper(s) ==
  IF s = <<>> THEN <<>> ELSE <<UpperOf(Head(s))>> \o ToUpper(Tail(s))

\* c.Query(key, default): the default stands in for an absent or empty value
Query(value, defaultValue) == IF value = <<>> THEN defaultValue ELSE value

----------------------------------------------------------------------------
(* Machine integers *)

IntBytes == 8

RECURSIVE Fill(_, _)
Fill(b, n) == IF n = 0 THEN <<>> ELSE <<b>> \o Fill(b, n - 1)

Zero == Fill(0, IntBytes)

Small(n) == <<n>> \o Fill(0, IntBytes - 1)

\* math.MaxInt64 and math.MinInt64
MaxInt == Fill(255, IntBytes - 1) \o <<127>>

MinInt == Fill(0, IntBytes - 1) \o <<128>>

IsNeg(x) == x[IntBytes] >= 128

\* x < 1 on signed words
LessThanOne(x) == IsNeg(x) \/ x = Zero

\* bytes i.. of x*m + c, followed by the carry out of the top byte
RECURSIVE MulAddBytes(_, _, _, _)
MulAddBytes(x, m, c, i) ==
  IF i > IntBytes THEN <<c>>
  ELSE LET t == x[i] * m + c
       IN <<t % 256>> \o MulAddBytes(x, m, t \div 256, i + 1)

\* bytes i.. of x + y + c (the carry out of the top byte is dropped)
RECURSIVE AddBytes(_, _, _, _)
AddBytes(x, y, c, i) ==
  IF i > IntBytes THEN <<>>
  ELSE LET t == x[i] + y[i] + c
       IN <<t % 256>> \o AddBytes(x, y, t \div 256, i + 1)

Add(x, y) == AddBytes(x, y, 0, 1)

\* -x
Neg(x) == AddBytes([i \in 1..IntBytes |-> 255 - x[i]], Zero, 1, 1)

Sub(x, y) == Add(x, Neg(y))

\* sum of x[i]*y[k+1-i] over the byte pairs of weight 256^(k-1)
RECURSIVE Column(_, _, _, _)
Column(x, y, k, i) ==
  IF i > IntBytes \/ i > k THEN 0
  ELSE (IF k + 1 - i <= IntBytes THEN x[i] * y[k + 1 - i] ELSE 0)
       + Column(x, y, k, i + 1)

\* bytes k..n of the product x*y
RECURSIVE MulBytes(_, _, _, _, _)
MulBytes(x, y, k, c, n) ==
  IF k > n THEN <<>>
  ELSE LET t == Column(x, y, k, 1) + c
       IN <<t % 256>> \o MulBytes(x, y, k + 1, t \div 256, n)

\* x * y on int: the low IntBytes bytes of the product
Mul(x, y) == MulBytes(x, y, 1, 0, IntBytes)

----------------------------------------------------------------------------
(* strconv.Atoi *)

Digits == <<"0", "1", "2", "3", "4", "5", "6", "7", "8", "9">>

IsDigit(ch) == \E d \in 1..10 : Digits[d] = ch

DigitValue(ch) == (CHOOSE d \in 1..10 : Digits[d] = ch) - 1

\* the digit loop: n = n*10 + d, with a syntax error on a non-digit and a
\* range error once the value no longer fits 64 unsigned bits
RECURSIVE ParseUint(_, _)
ParseUint(s, n) ==
  IF s = <<>> THEN [err |-> "", n |-> n]
  ELSE IF ~IsDigit(Head(s)) THEN [err |-> "syntax", n |-> Zero]
  ELSE LET t == MulAddBytes(n, 10, DigitValue(Head(s)), 1)
       IN IF t[IntBytes + 1] # 0 THEN [err |-> "range", n |-> Zero]
          ELSE ParseUint(Tail(s), SubSeq(t, 1, IntBytes))

Atoi(s) ==
  LET signed == s # <<>> /\ Head(s) \in {"+", "-"}
      neg    == s # <<>> /\ Head(s) = "-"
      body   == IF signed THEN Tail(s) ELSE s
      un     == ParseUint(body, Zero)
  IN IF body = <<>> THEN [err |-> "syntax", n |-> Zero]
     ELSE IF un.err = "syntax" THEN [err |-> "syntax", n |-> Zero]
     ELSE IF un.err = "range" THEN [err |-> "range", n |-> IF neg THEN MinInt ELSE MaxInt]
     ELSE IF ~neg /\ IsNeg(un.n) THEN [err |-> "range", n |-> MaxInt]
     ELSE IF neg /\ IsNeg(un.n) /\ un.n # MinInt THEN [err |-> "range", n |-> MinInt]
     ELSE [err |-> "", n |-> IF neg THEN Neg(un.n) ELSE un.n]

----------------------------------------------------------------------------
(* Decoded BSON values (interface{} holding string, bson.M, bson.A, ...) *)

\* a missing map key, or a BSON null: the nil interface
Nil == [t |-> "nil"]

\* a scalar that is neither a string, a document nor an array
Num == [t |-> "int32"]

Str(s) == [t |-> "string", s |-> s]

\* bson.M: m maps the keys that are present to their values
Doc(m) == [t |-> "M", m |-> m]

\* bson.A
Arr(a) == [t |-> "A", a |-> a]

IsM(v) == v.t = "M"

IsA(v) == v.t = "A"

\* data[key] on a bson.M: nil when the key is missing
Index(data, key) == IF key \in DOMAIN data.m THEN data.m[key] ELSE Nil

\* func getStringField(data interface{}, key string) string
getStringField(data, key) ==
  IF IsM(data) /\ Index(data, key).t = "string" THEN Index(data, key).s ELSE ""

----------------------------------------------------------------------------
(* The flattening loops of GetProducts *)

\* the inner loop over brokersData
RECURSIVE BrokersOf(_)
BrokersOf(brokersData) ==
  IF brokersData = <<>> THEN <<>>
  ELSE LET brokerItem == Head(brokersData)
       IN (IF IsM(brokerItem)
           THEN <<[Key         |-> getStringField(brokerItem, "key"),
                   ChannelName |-> getStringField(brokerItem, "channelName")]>>
           ELSE <<>>)
          \o BrokersOf(Tail(brokersData))

\* brokers := []Broker{} and the guarded loop that fills it
Brokers(productMap) ==
  IF IsA(Index(productMap, "brokers"))
  THEN BrokersOf(Index(productMap, "brokers").a)
  ELSE <<>>

\* the unchecked assertions x.(bson.M) inside the Product literal panic
\* unless the asserted value is a bson.M
AssertionPanics(result, productMap) ==
  \/ ~IsM(Index(result, "productType"))
  \/ ~IsM(Index(productMap, "insurer"))

\* the Product literal
MakeProduct(result, productMap) ==
  [ID           |-> getStringField(productMap, "id"),
   ProductName  |-> getStringField(productMap, "productName"),
   ProductGroup |-> [Name |-> getStringField(result, "name"),
                     Key  |-> getStringField(result, "key")],
   ProductType  |-> [Name |-> getStringField(Index(result, "productType"), "name"),
                     Key  |-> getStringField(Index(result, "productType"), "key")],
   Insurer      |-> [ID          |-> getStringField(Index(productMap, "insurer"), "_id"),
                     InsurerCode |-> getStringField(Index(productMap, "insurer"), "insurerCode"),
                     InsurerName |-> getStringField(Index(productMap, "insurer"), "insurerName")],
   Brokers      |-> Brokers(productMap),
   Status       |-> getStringField(productMap, "productStatus")]

\* FlattenList with break in place of continue on a malformed item
RECURSIVE FlattenListBreak(_, _, _)
FlattenListBreak(result, productList, acc) ==
  IF productList = <<>> THEN [panic |-> FALSE, products |-> acc]
  ELSE LET item == Head(productList)
       IN IF ~IsM(item) THEN [panic |-> FALSE, products |-> acc]
          ELSE IF AssertionPanics(result, item) THEN [panic |-> TRUE, products |-> acc]
          ELSE FlattenListBreak(result, Tail(productList),
                                Append(acc, MakeProduct(result, item)))

\* the loop over productList, appending to acc; panic ends the handler
RECURSIVE FlattenList(_, _, _)
FlattenList(result, productList, acc) ==
  IF productList = <<>> THEN [panic |-> FALSE, products |-> acc]
  ELSE LET item == Head(productList)
       IN IF ~IsM(item) THEN FlattenList(result, Tail(productList), acc)
          ELSE IF AssertionPanics(result, item) THEN [panic |-> TRUE, products |-> acc]
          ELSE FlattenList(result, Tail(productList),
                           Append(acc, MakeProduct(result, item)))

\* FlattenResults with break in place of continue on a bad productList
RECURSIVE FlattenResultsBreak(_, _)
FlattenResultsBreak(docs, acc) ==
  IF docs = <<>> THEN [panic |-> FALSE, products |-> acc]
  ELSE LET result == Head(docs)
       IN IF ~IsA(Index(result, "productList"))
          THEN [panic |-> FALSE, products |-> acc]
          ELSE LET inner == FlattenList(result, Index(result, "productList").a, acc)
               IN IF inner.panic THEN inner
                  ELSE FlattenResultsBreak(Tail(docs), inner.products)

\* the loop over results
RECURSIVE FlattenResults(_, _)
FlattenResults(docs, acc) ==
  IF docs = <<>> THEN [panic |-> FALSE, products |-> acc]
  ELSE LET result == Head(docs)
       IN IF ~IsA(Index(result, "productList"))
          THEN FlattenResults(Tail(docs), acc)
          ELSE LET inner == FlattenList(result, Index(result, "productList").a, acc)
               IN IF inner.panic THEN inner
                  ELSE FlattenResults(Tail(docs), inner.products)

----------------------------------------------------------------------------
(* Requests and store contents the model draws *)

RECURSIVE SeqsUpTo(_, _)
SeqsUpTo(S, n) ==
  IF n = 0 THEN {<<>>}
  ELSE LET shorter == SeqsUpTo(S, n - 1)
       IN shorter \cup {Append(q, x) : q \in shorter, x \in S}

\* characters of param and status: every metacharacter and a plain letter
TextAlphabet == MetaClass \cup {"a"}

StatusAlphabet == {"a", "B", ".", "\\"}

\* characters of short page and limit strings
NumAlphabet == {"0", "1", "7", "-", "+", "x"}

Str2Pow62Plus1 ==
  <<"4", "6", "1", "1", "6", "8", "6", "0", "1", "8", "4", "2", "7", "3", "8", "7", "9", "0", "5">>

StrMaxInt ==
  <<"9", "2", "2", "3", "3", "7", "2", "0", "3", "6", "8", "5", "4", "7", "7", "5", "8", "0", "7">>

StrMaxIntPlus1 ==
  <<"9", "2", "2", "3", "3", "7", "2", "0", "3", "6", "8", "5", "4", "7", "7", "5", "8", "0", "8">>

StrMinInt ==
  <<"-", "9", "2", "2", "3", "3", "7", "2", "0", "3", "6", "8", "5", "4", "7", "7", "5", "8", "0", "8">>

StrMinIntMinus1 ==
  <<"-", "9", "2", "2", "3", "3", "7", "2", "0", "3", "6", "8", "5", "4", "7", "7", "5", "8", "0", "9">>

Str2Pow64 ==
  <<"1", "8", "4", "4", "6", "7", "4", "4", "0", "7", "3", "7", "0", "9", "5", "5", "1", "6", "1", "6">>

Str2Pow32 ==
  <<"4", "2", "9", "4", "9", "6", "7", "2", "9", "6">>

Str2Pow32Plus1 ==
  <<"4", "2", "9", "4", "9", "6", "7", "2", "9", "7">>

StrPadded12 ==
  <<"+", "0", "0", "0", "0", "0", "0", "0", "0", "0", "0", "0", "0", "0", "0", "0", "0", "0", "0", "0", "0", "0", "1", "2">>

\* long page and limit strings: around 2^62, 2^63, 2^64 and 2^32
BigNums ==
  {Str2Pow62Plus1, StrMaxInt, StrMaxIntPlus1, StrMinInt, StrMinIntMinus1,
   Str2Pow64, Str2Pow32, Str2Pow32Plus1, StrPadded12}

FewNums == {<<>>, <<"1">>, <<"2">>, <<"0">>, <<"x">>} \cup BigNums

\* an empty bson.M
NoFields == [k \in {} |-> Nil]

\* a key and its value, or nothing when the value is nil
Opt(key, value) == IF value = Nil THEN NoFields ELSE key :> value

BrokerGood == Doc([key |-> Str("bk1"), channelName |-> Str("Agent")])

BrokerNoChannel == Doc([key |-> Str("bk2"), channelName |-> Num])

BrokerMalformed == Str("not-a-document")

BrokerItems == {BrokerGood, BrokerNoChannel, BrokerMalformed}

InsurerGood ==
  Doc(("_id" :> Str("i1")) @@ [insurerCode |-> Str("AXA"), insurerName |-> Str("Axa Insurance")])

InsurerPartial == Doc([insurerCode |-> Str("MTL"), insurerName |-> Num])

MakeItem(id, insurer, brokers) ==
  Doc([id |-> Str(id), productName |-> Str(id), productStatus |-> Str("ACTIVE")]
      @@ Opt("insurer", insurer) @@ Opt("brokers", brokers))

ItemGood == MakeItem("p1", InsurerGood, Arr(<<BrokerGood>>))

ItemPartial ==
  Doc([id |-> Str("p2"), productName |-> Num, insurer |-> InsurerPartial])

ItemMalformed == Str("not-a-document")

ItemNoInsurer == MakeItem("p4", Nil, Arr(<<BrokerGood>>))

ItemBadInsurer == MakeItem("p5", Str("AXA"), Arr(<<>>))

ShapeItems == {ItemGood, ItemPartial, ItemMalformed, ItemNoInsurer, ItemBadInsurer}

BrokerShapeItems ==
  {MakeItem("p3", InsurerGood, b) :
     b \in {Nil, Str("none")} \cup {Arr(q) : q \in SeqsUpTo(BrokerItems, MaxBrokers)}}

ProductLists ==
  {Nil, Num}
  \cup {Arr(l) : l \in SeqsUpTo(ShapeItems, MaxItems)}
  \cup {Arr(<<i>>) : i \in BrokerShapeItems}

TypeOne == Doc([name |-> Str("Individual"), key |-> Str("ind")])

TypeTwo == Doc([name |-> Str("Fleet"), key |-> Str("fleet")])

MakeGroup(name, key, productType, productList) ==
  Doc(Opt("name", name) @@ Opt("key", key)
      @@ Opt("productType", productType) @@ Opt("productList", productList))

GroupDocs == {MakeGroup(Str("Health"), Str("health"), TypeOne, l) : l \in ProductLists}

CoreDocs ==
  {MakeGroup(Str("Health"), Str("health"), TypeOne, Arr(<<ItemGood, ItemPartial>>)),
   MakeGroup(Str("Motor"), Str("motor"), TypeTwo, Arr(<<ItemGood>>)),
   MakeGroup(Str("Motor"), Str("motor"), TypeTwo, Arr(<<ItemMalformed, ItemPartial>>)),
   MakeGroup(Str("Health"), Str("health"), TypeOne, Nil),
   MakeGroup(Str("Health"), Str("health"), TypeOne, Str("not-an-array")),
   MakeGroup(Str("Travel"), Str("travel"), Nil, Arr(<<ItemGood>>)),
   MakeGroup(Str("Travel"), Str("travel"), Str("not-a-document"), Arr(<<ItemPartial>>)),
   MakeGroup(Str("Travel"), Str("travel"), Nil, Arr(<<ItemMalformed>>)),
   MakeGroup(Str("Travel"), Str("travel"), Nil, Nil),
   MakeGroup(Num, Nil, Doc([name |-> Str("Group")]), Arr(<<ItemGood>>)),
   MakeGroup(Str("Health"), Str("health"), TypeOne, Arr(<<ItemNoInsurer>>))}

DocSeqs == SeqsUpTo(CoreDocs, MaxDocs) \cup {<<d>> : d \in GroupDocs}

\* the result set of the requests that vary the query parameters only
PlainDocs ==
  <<MakeGroup(Str("Health"), Str("health"), TypeOne, Arr(<<ItemGood, ItemPartial>>)),
    MakeGroup(Str("Motor"), Str("motor"), TypeTwo, Arr(<<ItemGood>>))>>

----------------------------------------------------------------------------
(* GetProducts *)

NoResponse == [code |-> 0, kind |-> "none", body |-> "", data |-> <<>>]

\* c.Status(500).SendString(err.Error())
SendError(text) == [code |-> 500, kind |-> "text", body |-> text, data |-> <<>>]

\* c.JSON(response)
SendJSON(data) == [code |-> 200, kind |-> "json", body |-> "", data |-> data]

\* errors ProductCollection.Find can return
FindErrors == {"context deadline exceeded", "server selection error"}

\* errors cursor.All can return
DecodeErrors == {"context deadline exceeded", "cannot decode document"}

\* EffectivePage without the page < 1 test
EffectivePageNoFloor(arg) ==
  LET r == Atoi(Query(arg, <<"1">>))
  IN IF r.err # "" THEN Small(1) ELSE r.n

\* page, err := strconv.Atoi(pageStr); if err != nil || page < 1 { page = 1 }
EffectivePage(arg) ==
  LET r == Atoi(Query(arg, <<"1">>))
  IN IF r.err # "" \/ LessThanOne(r.n) THEN Small(1) ELSE r.n

\* limit, err := strconv.Atoi(limitStr); if err != nil || limit < 1 { limit = 10 }
EffectiveLimit(arg) ==
  LET r == Atoi(Query(arg, <<"1", "0">>))
  IN IF r.err # "" \/ LessThanOne(r.n) THEN Small(10) ELSE r.n

\* the regex clause of one field
RegexClause(field, pattern) == [field |-> field, regex |-> pattern, options |-> "i"]

\* filter["$or"]
OrClause(sanitizedParam) ==
  <<RegexClause("productType.key", sanitizedParam),
    RegexClause("key", sanitizedParam),
    RegexClause("productList.productName", sanitizedParam),
    RegexClause("productList.insurer.insurerCode", sanitizedParam),
    RegexClause("productList.brokers.key", sanitizedParam)>>

\* MakeFilter with the status clause set whether or not status is empty
MakeFilterAlwaysStatus(p, st) ==
  (IF p # <<>> THEN "$or" :> OrClause(SanitizeString(p)) ELSE NoFields)
  @@ ("productList.productStatus" :>
        RegexClause("productList.productStatus", SanitizeString(ToUpper(st))))

\* filter := bson.M{} and the two guarded assignments
MakeFilter(p, st) ==
  (IF p # <<>> THEN "$or" :> OrClause(SanitizeString(p)) ELSE NoFields)
  @@ (IF st # <<>>
      THEN "productList.productStatus" :>
             RegexClause("productList.productStatus", SanitizeString(ToUpper(st)))
      ELSE NoFields)

\* SetSkip(int64((page - 1) * limit))
SkipOf(pg, lim) == Mul(Sub(pg, Small(1)), lim)

\* lim >= k for a positive word lim and a small k
AtLeast(lim, k) == lim[1] >= k \/ \E i \in 2..IntBytes : lim[i] # 0

\* what the store hands back under SetLimit(lim): at most lim documents
Limited(docs, lim) ==
  SubSeq(docs, 1, CHOOSE k \in 0..Len(docs) :
                    /\ k = 0 \/ AtLeast(lim, k)
                    /\ k = Len(docs) \/ ~AtLeast(lim, k + 1))

\* lines 54-70: read and normalise the query parameters
ParseQuery ==
  /\ pc = "start"
  /\ page' = EffectivePage(pageArg)
  /\ limit' = EffectiveLimit(limitArg)
  /\ pc' = "parsed"
  /\ UNCHANGED <<param, status, pageArg, limitArg, storeDocs, filter, findOpts,
                 findCalls, ctxState, cursorState, results, products, response,
                 panicked>>

\* lines 72-90: build the filter
BuildFilter ==
  /\ pc = "parsed"
  /\ filter' = MakeFilter(param, status)
  /\ pc' = "filtered"
  /\ UNCHANGED <<param, status, pageArg, limitArg, storeDocs, page, limit,
                 findOpts, findCalls, ctxState, cursorState, results, products,
                 response, panicked>>

\* lines 92-108, Find returns a cursor; defer cursor.Close(ctx)
FindOk ==
  /\ pc = "filtered"
  /\ findOpts' = [skip |-> SkipOf(page, limit), limit |-> limit]
  /\ findCalls' = findCalls + 1
  /\ ctxState' = "active"
  /\ cursorState' = "open"
  /\ pc' = "found"
  /\ UNCHANGED <<param, status, pageArg, limitArg, storeDocs, page, limit,
                 filter, results, products, response, panicked>>

\* FindError with cancel called at the end of the handler only
FindErrorLeaksContext ==
  /\ pc = "filtered"
  /\ findOpts' = [skip |-> SkipOf(page, limit), limit |-> limit]
  /\ findCalls' = findCalls + 1
  /\ \E e \in FindErrors : response' = SendError(e)
  /\ ctxState' = "active"
  /\ pc' = "done"
  /\ UNCHANGED <<param, status, pageArg, limitArg, storeDocs, page, limit,
                 filter, cursorState, results, products, panicked>>

\* lines 92-112, Find returns an error: 500, and the deferred cancel runs
FindError ==
  /\ pc = "filtered"
  /\ findOpts' = [skip |-> SkipOf(page, limit), limit |-> limit]
  /\ findCalls' = findCalls + 1
  /\ \E e \in FindErrors : response' = SendError(e)
  /\ ctxState' = "cancelled"
  /\ pc' = "done"
  /\ UNCHANGED <<param, status, pageArg, limitArg, storeDocs, page, limit,
                 filter, cursorState, results, products, panicked>>

\* lines 115-116, cursor.All decodes the whole result set
DecodeOk ==
  /\ pc = "found"
  /\ results' = Limited(storeDocs, findOpts.limit)
  /\ pc' = "decoded"
  /\ UNCHANGED <<param, status, pageArg, limitArg, storeDocs, page, limit,
                 filter, findOpts, findCalls, ctxState, cursorState, products,
                 response, panicked>>

\* lines 116-119, cursor.All fails: 500, deferred Close and cancel run
DecodeError ==
  /\ pc = "found"
  /\ \E e \in DecodeErrors : response' = SendError(e)
  /\ cursorState' = "closed"
  /\ ctxState' = "cancelled"
  /\ pc' = "done"
  /\ UNCHANGED <<param, status, pageArg, limitArg, storeDocs, page, limit,
                 filter, findOpts, findCalls, results, products, panicked>>

\* lines 121-171, the loops run to their end
FlattenOk ==
  /\ pc = "decoded"
  /\ ~FlattenResults(results, <<>>).panic
  /\ products' = FlattenResults(results, <<>>).products
  /\ pc' = "flattened"
  /\ UNCHANGED <<param, status, pageArg, limitArg, storeDocs, page, limit,
                 filter, findOpts, findCalls, ctxState, cursorState, results,
                 response, panicked>>

\* lines 121-171, a type assertion panics: the handler unwinds through its
\* deferred calls and sends nothing
FlattenPanic ==
  /\ pc = "decoded"
  /\ FlattenResults(results, <<>>).panic
  /\ panicked' = TRUE
  /\ cursorState' = "closed"
  /\ ctxState' = "cancelled"
  /\ pc' = "done"
  /\ UNCHANGED <<param, status, pageArg, limitArg, storeDocs, page, limit,
                 filter, findOpts, findCalls, results, products, response>>

\* lines 174-182: send the JSON body; deferred Close and cancel run
Respond ==
  /\ pc = "flattened"
  /\ response' = SendJSON(products)
  /\ cursorState' = "closed"
  /\ ctxState' = "cancelled"
  /\ pc' = "done"
  /\ UNCHANGED <<param, status, pageArg, limitArg, storeDocs, page, limit,
                 filter, findOpts, findCalls, results, products, panicked>>

\* the locals before the handler has run
InitLocals ==
  /\ pc = "start"
  /\ page = Zero
  /\ limit = Zero
  /\ filter = NoFields
  /\ findOpts = [skip |-> Zero, limit |-> Zero]
  /\ findCalls = 0
  /\ ctxState = "none"
  /\ cursorState = "none"
  /\ results = <<>>
  /\ products = <<>>
  /\ response = NoResponse
  /\ panicked = FALSE

\* requests that vary the search text
InitText ==
  /\ param \in StringsUpTo(TextAlphabet, MaxLen)
  /\ status \in {<<>>, <<"a", ".">>}
  /\ pageArg = <<>>
  /\ limitArg = <<>>
  /\ storeDocs = PlainDocs

\* requests that vary the status
InitStatus ==
  /\ param \in {<<>>, <<"a">>}
  /\ status \in StringsUpTo(StatusAlphabet, MaxLen)
  /\ pageArg = <<>>
  /\ limitArg = <<>>
  /\ storeDocs = PlainDocs

\* requests that vary page and limit
InitPaging ==
  /\ param = <<>>
  /\ status = <<>>
  /\ \/ /\ pageArg \in StringsUpTo(NumAlphabet, MaxNumLen) \cup BigNums
        /\ limitArg \in FewNums
     \/ /\ pageArg \in FewNums
        /\ limitArg \in StringsUpTo(NumAlphabet, MaxNumLen) \cup BigNums
  /\ storeDocs = PlainDocs

\* requests that vary the documents the store returns
InitDocs ==
  /\ param = <<>>
  /\ status = <<>>
  /\ pageArg = <<>>
  /\ limitArg = <<>>
  /\ storeDocs \in DocSeqs

Init == InitLocals /\ (InitText \/ InitStatus \/ InitPaging \/ InitDocs)

Next ==
  \/ ParseQuery
  \/ BuildFilter
  \/ FindOk
  \/ FindError
  \/ DecodeOk
  \/ DecodeError
  \/ FlattenOk
  \/ FlattenPanic
  \/ Respond

Spec == Init /\ [][Next]_vars

----------------------------------------------------------------------------
(* Vocabulary of the properties, stated without the handler's operators *)

\* the handler has gone past the named steps
Parsed == pc # "start"

Filtered == pc \notin {"start", "parsed"}

\* the handler returned and neither Find nor cursor.All failed
FinishedWithoutStoreError == pc = "done" /\ response.code # 500

\* the characters . * + ? ^ $ { } ( ) | [ ] \
Metacharacters ==
  {".", "*", "+", "?", "^", "$", "{", "}", "(", ")", "|", "[", "]", "\\"}

\* out is src with one backslash put before each metacharacter, nothing else
RECURSIVE IsEscapeOf(_, _)
IsEscapeOf(out, src) ==
  IF src = <<>> THEN out = <<>>
  ELSE IF Head(src) \in Metacharacters
       THEN /\ Len(out) >= 2
            /\ out[1] = "\\"
            /\ out[2] = Head(src)
            /\ IsEscapeOf(SubSeq(out, 3, Len(out)), Tail(src))
       ELSE /\ Len(out) >= 1
            /\ out[1] = Head(src)
            /\ IsEscapeOf(Tail(out), Tail(src))

\* quotient (bytes 1..i) and remainder of the word x divided by ten
RECURSIVE DivTen(_, _, _)
DivTen(x, i, rem) ==
  IF i = 0 THEN [q |-> <<>>, r |-> rem]
  ELSE LET cur  == rem * 256 + x[i]
           rest == DivTen(x, i - 1, cur % 10)
       IN [q |-> Append(rest.q, cur \div 10), r |-> rest.r]

\* the decimal digits of a non-negative word, without leading zeros
RECURSIVE Decimal(_)
Decimal(x) ==
  IF x = Zero THEN <<>>
  ELSE LET d == DivTen(x, IntBytes, 0)
       IN Append(Decimal(d.q), Digits[d.r + 1])

RECURSIVE StripZeros(_)
StripZeros(s) ==
  IF s # <<>> /\ Head(s) = "0" THEN StripZeros(Tail(s)) ELSE s

\* a <= b for digit strings of the same length
RECURSIVE DigitsLeq(_, _)
DigitsLeq(a, b) ==
  IF a = <<>> THEN TRUE
  ELSE IF Head(a) # Head(b) THEN DigitValue(Head(a)) < DigitValue(Head(b))
  ELSE DigitsLeq(Tail(a), Tail(b))

\* the digits of s when s is a decimal integer >= 1 that fits an int, else <<>>
PositiveDigits(s) ==
  LET body == IF s # <<>> /\ Head(s) = "+" THEN Tail(s) ELSE s
      sig  == StripZeros(body)
  IN IF /\ body # <<>>
        /\ \A i \in 1..Len(body) : IsDigit(body[i])
        /\ \/ Len(sig) < Len(StrMaxInt)
           \/ Len(sig) = Len(StrMaxInt) /\ DigitsLeq(sig, StrMaxInt)
     THEN sig
     ELSE <<>>

\* the digits of the page or limit in force for the raw argument arg
ExpectedDigits(arg, fallback) ==
  IF PositiveDigits(arg) = <<>> THEN fallback ELSE PositiveDigits(arg)

\* the productList of a group document as a sequence (empty when it is none)
ListOf(doc) ==
  IF "productList" \in DOMAIN doc.m /\ doc.m["productList"].t = "A"
  THEN doc.m["productList"].a
  ELSE <<>>

IsSubDocument(v) == v.t = "M"

RECURSIVE CountAllItems(_)
CountAllItems(docs) ==
  IF docs = <<>> THEN 0 ELSE Len(ListOf(Head(docs))) + CountAllItems(Tail(docs))

RECURSIVE CountSubDocumentItems(_)
CountSubDocumentItems(docs) ==
  IF docs = <<>> THEN 0
  ELSE Len(SelectSeq(ListOf(Head(docs)), IsSubDocument))
       + CountSubDocumentItems(Tail(docs))

\* the string under key k of the document d, "" when missing or no string
Leaf(d, k) ==
  IF d.t = "M" /\ k \in DOMAIN d.m /\ d.m[k].t = "string" THEN d.m[k].s ELSE ""

\* the value under key k of the document d
Field(d, k) == IF k \in DOMAIN d.m THEN d.m[k] ELSE Nil

RECURSIVE PairWith(_, _)
PairWith(doc, items) ==
  IF items = <<>> THEN <<>>
  ELSE <<[group |-> doc, entry |-> Head(items)]>> \o PairWith(doc, Tail(items))

\* the sub-document entries of a result set, each with its group document,
\* in result order and list order
RECURSIVE Entries(_)
Entries(docs) ==
  IF docs = <<>> THEN <<>>
  ELSE PairWith(Head(docs), SelectSeq(ListOf(Head(docs)), IsSubDocument))
       \o Entries(Tail(docs))

\* the well-formed broker items of an entry, as response brokers
WellFormedBrokers(entry) ==
  LET b   == Field(entry, "brokers")
      raw == IF b.t = "A" THEN SelectSeq(b.a, IsSubDocument) ELSE <<>>
  IN [i \in 1..Len(raw) |->
        [Key |-> Leaf(raw[i], "key"), ChannelName |-> Leaf(raw[i], "channelName")]]

RemoveAt(q, i) == SubSeq(q, 1, i - 1) \o SubSeq(q, i + 1, Len(q))

----------------------------------------------------------------------------
(* The properties *)

\* C1: whenever the store returns a result set without a query or decode
\* error, GetProducts finishes with a 200 response whatever the shape of the
\* nested productType and insurer fields; it never aborts.
C1_NestedShapesNeverFail ==
  FinishedWithoutStoreError => response.code = 200 /\ ~panicked

\* C2 as stated: on success the response holds one entry per productList
\* item of the returned group documents.
C2_OneEntryPerListItem ==
  pc = "done" /\ response.code = 200 =>
    Len(response.data) = CountAllItems(results)

\* C2 as amended: on success the response holds one entry per productList
\* item that is a sub-document; items that are not are skipped.
C2_OneEntryPerSubDocumentItem ==
  pc = "done" /\ response.code = 200 =>
    Len(response.data) = CountSubDocumentItems(results)

\* C2: a successful response over two documents, one list item of which is
\* no sub-document and was skipped
C2_Witness ==
  /\ pc = "done"
  /\ response.code = 200
  /\ Len(results) = 2
  /\ CountSubDocumentItems(results) = 2
  /\ CountAllItems(results) = 3
  /\ Len(response.data) = 2

\* C3: the pattern put in the filter for param (and for the upper-cased
\* status) is that string with a single backslash before each metacharacter
\* and every other character unchanged and in order.
C3_SanitizeEscapesMetacharacters ==
  Filtered =>
    /\ param # <<>> =>
         \A i \in 1..Len(filter["$or"]) : IsEscapeOf(filter["$or"][i].regex, param)
    /\ status # <<>> =>
         IsEscapeOf(filter["productList.productStatus"].regex, ToUpper(status))

\* C3: a param and a status holding a metacharacter have been sanitized
C3_Witness ==
  /\ pc = "filtered"
  /\ param = <<"\\", "a">>
  /\ status = <<"a", ".">>
  /\ filter["$or"][1].regex = <<"\\", "\\", "a">>
  /\ filter["productList.productStatus"].regex = <<"A", "\\", ".">>

\* C4: the page in force is the integer the page argument spells when it
\* spells an integer >= 1, and 1 otherwise; the limit likewise, with 10;
\* both are >= 1 and a bad value produces no error response.
C4_PageAndLimitNormalised ==
  Parsed =>
    /\ ~LessThanOne(page)
    /\ ~LessThanOne(limit)
    /\ Decimal(page) = ExpectedDigits(pageArg, <<"1">>)
    /\ Decimal(limit) = ExpectedDigits(limitArg, <<"1", "0">>)
    /\ pc = "parsed" => response = NoResponse

\* C4: a negative page and a zero limit have been replaced by 1 and 10
C4_Witness ==
  /\ pc = "parsed"
  /\ pageArg = <<"-", "7">>
  /\ limitArg = <<"0">>
  /\ page = Small(1)
  /\ limit = Small(10)

\* C5: the skip handed to the store is the exact product (page-1)*limit,
\* never negative and never wrapped, its limit is the limit in force, and
\* at most limit documents come back.
C5_SkipIsExactProduct ==
  pc \in {"found", "decoded", "flattened", "done"} =>
    /\ findOpts.limit = limit
    /\ ~IsNeg(findOpts.skip)
    /\ findOpts.skip \o Fill(0, IntBytes)
         = MulBytes(Sub(page, Small(1)), limit, 1, 0, 2 * IntBytes)
    /\ Len(results) = 0 \/ AtLeast(limit, Len(results))

\* C6: every product-list entry whose brokers field is a sequence is
\* emitted with exactly its well-formed broker items, in order, and the
\* request succeeds; an entry without a brokers sequence is emitted with
\* no brokers.
C6_EntriesEmittedWithWellFormedBrokers ==
  FinishedWithoutStoreError =>
    /\ response.code = 200
    /\ Len(response.data) = Len(Entries(results))
    /\ \A k \in 1..Len(response.data) :
         response.data[k].Brokers = WellFormedBrokers(Entries(results)[k].entry)

\* C7: a returned group document whose productList is missing or is no
\* sequence adds nothing and causes no error: the handler ends as it would
\* have ended without that document.
C7_BadProductListIsSkipped ==
  \A i \in 1..Len(results) :
    Field(results[i], "productList").t # "A" =>
      LET other == FlattenResults(RemoveAt(results, i), <<>>)
      IN /\ pc = "flattened" => ~other.panic /\ products = other.products
         /\ pc = "done" /\ response.code = 200 =>
              ~other.panic /\ response.data = other.products
         /\ pc = "done" /\ panicked => other.panic

\* C7: the first of two documents has no productList and the second one's
\* entries were returned
C7_Witness ==
  /\ pc = "done"
  /\ response.code = 200
  /\ Len(results) = 2
  /\ "productList" \notin DOMAIN results[1].m
  /\ Len(response.data) = 2

\* C8: a group document with n well-formed product-list entries yields
\* exactly n products, each carrying that document's group name/key and
\* product-type name/key.
C8_EntriesCarryTheirGroup ==
  FinishedWithoutStoreError =>
    /\ response.code = 200
    /\ Len(response.data) = Len(Entries(results))
    /\ \A k \in 1..Len(response.data) :
         LET g == Entries(results)[k].group
         IN /\ response.data[k].ProductGroup
                 = [Name |-> Leaf(g, "name"), Key |-> Leaf(g, "key")]
            /\ response.data[k].ProductType
                 = [Name |-> Leaf(Field(g, "productType"), "name"),
                    Key  |-> Leaf(Field(g, "productType"), "key")]

\* C9: the filter has the five-field $or clause exactly when param is not
\* empty and the productStatus clause exactly when status is not empty; with
\* both empty the filter is empty.
C9_FilterClausesFollowInputs ==
  Filtered =>
    /\ "$or" \in DOMAIN filter <=> param # <<>>
    /\ "productList.productStatus" \in DOMAIN filter <=> status # <<>>
    /\ DOMAIN filter \subseteq {"$or", "productList.productStatus"}
    /\ "$or" \in DOMAIN filter =>
         {filter["$or"][i].field : i \in 1..Len(filter["$or"])}
           = {"productType.key", "key", "productList.productName",
              "productList.insurer.insurerCode", "productList.brokers.key"}
    /\ param = <<>> /\ status = <<>> => filter = NoFields

\* C9: a param without a status has produced the $or clause alone
C9_Witness ==
  /\ pc = "filtered"
  /\ param = <<"a">>
  /\ status = <<>>
  /\ DOMAIN filter = {"$or"}
  /\ Len(filter["$or"]) = 5

\* C10: at most one Find is issued; after a Find or decode error the handler
\* has answered 500 with the error text and no data and takes no further
\* step; the timeout context is cancelled whenever the handler has returned.
C10_OneQueryNoRetryContextCancelled ==
  /\ findCalls <= 1
  /\ ctxState = "active" => pc \in {"found", "decoded", "flattened"}
  /\ pc = "done" => ctxState = "cancelled" /\ findCalls = 1 /\ ~ENABLED Next
  /\ response.code = 500 =>
       /\ pc = "done"
       /\ response.kind = "text"
       /\ response.body \in FindErrors \cup DecodeErrors
       /\ response.data = <<>>
       /\ products = <<>>

\* C10: Find timed out and the handler returned 500 with the context cancelled
C10_Witness ==
  /\ pc = "done"
  /\ response = SendError("context deadline exceeded")
  /\ cursorState = "none"
  /\ ctxState = "cancelled"
  /\ findCalls = 1

====
